---- MODULE Spec2Model ----
(***************************************************************************)
(* Model of openpnm.algorithms.Transport (src/openpnm/algorithms/          *)
(* _transport.py): assembly of the linear system A x = b from the throat   *)
(* conductance, application of value and rate boundary conditions, the     *)
(* run / solve cycle and the rate evaluation.                              *)
(*                                                                         *)
(* Number representation.  Conductances, boundary-condition entries and    *)
(* the entries of x_BC are integers.  The entries of A and b are exact     *)
(* rationals with the common denominator Np, stored as their numerators    *)
(* (fixed point): the code divides only once, by Np, when it takes the     *)
(* mean of the diagonal, so every entry it computes is a multiple of 1/Np. *)
(* astype_float is where integers enter that representation.  The field x  *)
(* is an exact rational vector <<numerators, denominator>>.  Floating      *)
(* point rounding is not modelled.                                         *)
(*                                                                         *)
(* Sparse matrices are modelled by their dense values: entries that are    *)
(* not stored are 0, and eliminate_zeros changes no value.                 *)
(*                                                                         *)
(* Matrices live in a store addressed by references, so that a copy and    *)
(* an alias differ: _pure_A and _A hold references, and an in-place edit   *)
(* of the object behind _A is seen through every reference to it.  An      *)
(* object is named by the statement that allocates it; the object a        *)
(* statement allocated before is unreachable by then.                      *)
(***************************************************************************)
EXTENDS Integers, Sequences, FiniteSets, TLC

(* ------------------------------------------------------------------ *)
(* Bounds                                                              *)
(* ------------------------------------------------------------------ *)
\* conductances range over 1..MaxG
MaxG == 2
\* number of changes the caller makes to BCs, conductance and settings
MaxChanges == 3

GVals == 1 .. MaxG
\* finite values a caller writes into 'pore.bc.value' and 'pore.bc.rate'
BCValues == {0, 10}
BCRates == {-1}

(* ------------------------------------------------------------------ *)
(* Floats of the BC arrays: finite or NaN                              *)
(* ------------------------------------------------------------------ *)
None == <<>>
NaN == <<"nan", 0>>
Inf == <<"inf", 0>>
Fin(v) == <<"fin", v>>
isfinite(v) == v[1] = "fin"
isnan(v) == v[1] = "nan"
val(v) == v[2]

(* ------------------------------------------------------------------ *)
(* Networks: throat.conns, 0-based throat index, lower pore first      *)
(* ------------------------------------------------------------------ *)
Pair == [Np |-> 2, conns |-> (0 :> <<0, 1>>)]
Chain == [Np |-> 3, conns |-> (0 :> <<0, 1>> @@ 1 :> <<1, 2>>)]
Networks == {Pair, Chain}
\* pores 0 and 1 joined by a throat, pore 2 on its own
Split == [Np |-> 3, conns |-> (0 :> <<0, 1>>)]

(* ------------------------------------------------------------------ *)
(* Names of properties and objects: the sequence of the dot-separated  *)
(* parts, so '' is <<"">>; None is <<>>                                *)
(* ------------------------------------------------------------------ *)
Unset == <<"">>
Quantity == <<"pore", "x">>
Conductance == <<"throat", "g">>
ConductanceMultiLevel == <<"throat", "g", "w">>
PhaseName == <<"phase_01">>

VARIABLES
    Np,          \* network.Np, the number of pores
    conns,       \* network['throat.conns']
    g,           \* phase[settings.conductance], one value per throat
    cache,       \* settings.cache
    iterative,   \* settings.conductance in self.iterative_props
    bc_value,    \* self['pore.bc.value']
    bc_rate,     \* self['pore.bc.rate']
    store,       \* the matrix objects, by reference
    _pure_A,     \* reference to the cached BC-free matrix, or "None"
    _A,          \* reference to the live matrix, or "None"
    _pure_b,     \* the BC-free right-hand side, or None
    _b,          \* the live right-hand side, or None
    x,           \* self[settings.quantity]: <<numerators, denominator>>, or None
    soln,        \* self.soln: <<field, is_converged>>, or None
    last,        \* the call that ran last and how it ended ("edit": a change by the caller)
    nchanges     \* changes made by the caller so far

\* what a call of run is followed through statement by statement needs
VARIABLES
    settings,    \* settings.quantity, .conductance and .phase: a name, '' or None
    nonfinite,   \* which arrays hold a NaN: "g" is phase[settings.conductance],
                 \* "laplacian" and "copy" the matrix objects, "b" the live b
    pc,          \* "idle", or the line of run that is executed next
    arg_x0,      \* the argument x0 of the last call of run, once line 191
                 \* has read it
    raised,      \* the exception the last call of run ended with, or None
    log,         \* the calls the last call of run made, in order
    exit_code,   \* <<the exit code of the solver in the last call of run>>, or None
    entry        \* <<x, soln>> as the last call of run found them

\* what the calls of rate and of the methods of the mixins need
VARIABLES
    g2,          \* the second column of phase[settings.conductance] when it
                 \* is an Nt by 2 array (g is then the first), or None
    ret,         \* <<method, arguments, outcome>> of the last such call, or
                 \* None; an outcome is <<"return", value>> or <<"raise", message>>
    label_arrays \* the boolean arrays of the object, by key; a key is the
                 \* sequence of its dot-separated parts

call_args == <<g2, ret, label_arrays>>

run_vars == <<settings, nonfinite, pc, arg_x0, raised, log, exit_code, entry, call_args>>
\* the record of the last call of run
call_vars == <<arg_x0, raised, log, exit_code, entry>>

vars == <<Np, conns, g, cache, iterative, bc_value, bc_rate, store, _pure_A, _A,
          _pure_b, _b, x, soln, last, nchanges, run_vars>>

Pores == 0 .. (Np - 1)
Throats == DOMAIN conns

\* the labels every object has from its construction: 'pore.all' and
\* 'throat.all', true everywhere
labels_after_init ==
    (<<"pore", "all">> :> [p \in Pores |-> TRUE])
    @@ (<<"throat", "all">> :> [t \in Throats |-> TRUE])

(* ------------------------------------------------------------------ *)
(* Sums                                                                *)
(* ------------------------------------------------------------------ *)
RECURSIVE SumOver(_, _)
SumOver(f, S) ==
    IF S = {} THEN 0
    ELSE LET e == CHOOSE e \in S : TRUE IN f[e] + SumOver(f, S \ {e})

\* numpy: v.sum()
Sum(v) == SumOver(v, DOMAIN v)

(* ------------------------------------------------------------------ *)
(* _build_A                                                            *)
(* ------------------------------------------------------------------ *)
\* network.create_adjacency_matrix(weights=w, fmt='coo'): the symmetric
\* weighted adjacency over Np nodes built from the Nt throat endpoints
\* (duplicate coordinates add up)
create_adjacency_matrix(w) ==
    [i \in Pores |-> [j \in Pores |->
        SumOver(w, {t \in Throats : conns[t] = <<i, j>> \/ conns[t] = <<j, i>>})]]

\* fault variant of laplacian: the degree enters the diagonal negated
laplacian_negative_degree(am) ==
    [i \in Pores |-> [j \in Pores |->
        IF i = j
        THEN 0 - SumOver([k \in Pores |-> am[k][j]], Pores \ {j})
        ELSE 0 - am[i][j]]]

\* fault variant of laplacian: the off-diagonal keeps the sign of am
laplacian_positive_offdiagonal(am) ==
    [i \in Pores |-> [j \in Pores |->
        IF i = j
        THEN SumOver([k \in Pores |-> am[k][j]], Pores \ {j})
        ELSE am[i][j]]]

\* scipy.sparse.csgraph.laplacian(am): L = D - am, D the diagonal of the
\* column sums of am without its diagonal
laplacian(am) ==
    [i \in Pores |-> [j \in Pores |->
        IF i = j
        THEN SumOver([k \in Pores |-> am[k][j]], Pores \ {j})
        ELSE 0 - am[i][j]]]

\* .astype(float): into the fixed-point representation of A and b
astype_float(M) == [i \in Pores |-> [j \in Pores |-> M[i][j] * Np]]

\* fault variant of build_A_cache: iterative_props is not consulted
build_A_cache_ignoring_iterative == cache

\* lines 95-97: the cache setting after the iterative_props test
build_A_cache == IF iterative THEN FALSE ELSE cache

\* fault variant of build_A_rebuild: the cache setting is not consulted
build_A_rebuild_ignoring_cache == _pure_A = "None"

\* lines 98-100: whether the pure matrix is (re)built
build_A_rebuild == (~build_A_cache) \/ _pure_A = "None"

\* lines 101-104: the pure matrix built from the current conductance
build_A_pure == astype_float(laplacian(create_adjacency_matrix(g)))

\* line 104: the store after the (possible) rebuild of the pure matrix
build_A_store ==
    IF build_A_rebuild THEN [store EXCEPT !["laplacian"] = build_A_pure]
    ELSE store

\* fault variant of build_A_copy: self.A = self._pure_A, without .copy()
build_A_alias(st) == [ref |-> "laplacian", store |-> st]

\* line 105: self._pure_A.copy() is a new object with the same values
build_A_copy(st) == [ref |-> "copy", store |-> [st EXCEPT !["copy"] = st["laplacian"]]]

(* ------------------------------------------------------------------ *)
(* _build_b                                                            *)
(* ------------------------------------------------------------------ *)
\* line 113: np.zeros(self.Np, dtype=float)
build_b_zeros == [i \in Pores |-> 0]

(* ------------------------------------------------------------------ *)
(* _apply_BCs                                                          *)
(* ------------------------------------------------------------------ *)
\* lines 146-147: b[ind] = bc.rate[ind], ind = isfinite(bc.rate)
apply_rate_b(b) ==
    [i \in Pores |-> IF isfinite(bc_rate[i]) THEN val(bc_rate[i]) * Np ELSE b[i]]

\* A.diagonal()
diagonal(A) == [i \in Pores |-> A[i][i]]

\* line 149: f = A.diagonal().mean()
mean_diagonal(A) == Sum(diagonal(A)) \div Np

\* line 151: ind = isfinite(bc.value)
value_ind == {i \in Pores : isfinite(bc_value[i])}

\* lines 154-155: x_BC, zero except for the BC values
x_BC == [i \in Pores |-> IF i \in value_ind THEN val(bc_value[i]) ELSE 0]

\* A * x_BC: matrix-vector product
matvec(A, v) == [i \in Pores |-> SumOver([j \in Pores |-> A[i][j] * v[j]], Pores)]

\* fault variant of apply_value_b: line 156 is missing
apply_value_b_no_coupling(A, b) ==
    LET f == mean_diagonal(A)
    IN [i \in Pores |-> IF i \in value_ind THEN val(bc_value[i]) * f ELSE b[i]]

\* lines 152-156: b[ind] = bc.value[ind] * f; b[~ind] -= (A * x_BC)[~ind]
apply_value_b(A, b) ==
    LET f == mean_diagonal(A)
        Ax == matvec(A, x_BC)
    IN [i \in Pores |->
            IF i \in value_ind THEN val(bc_value[i]) * f ELSE b[i] - Ax[i]]

\* fault variant of zero_rows_cols: only the rows of P_bc are zeroed
zero_rows_only(A) ==
    [i \in Pores |-> [j \in Pores |-> IF i \in value_ind THEN 0 ELSE A[i][j]]]

\* lines 158-161: zero the stored entries in the rows and columns of P_bc
zero_rows_cols(A) ==
    [i \in Pores |-> [j \in Pores |->
        IF i \in value_ind \/ j \in value_ind THEN 0 ELSE A[i][j]]]

\* fault variant of apply_value_A: datadiag[:] = f, on every pore
apply_value_A_all_diagonal(A) ==
    LET f == mean_diagonal(A)
        Z == zero_rows_cols(A)
    IN [i \in Pores |-> [j \in Pores |-> IF i = j THEN f ELSE Z[i][j]]]

\* lines 149, 158-166: the edited matrix (f is taken before the edit)
apply_value_A(A) ==
    LET f == mean_diagonal(A)
        Z == zero_rows_cols(A)
    IN [i \in Pores |-> [j \in Pores |->
            IF i = j THEN (IF i \in value_ind THEN f ELSE Z[i][i]) ELSE Z[i][j]]]

\* fault variant of _apply_BCs: the rate BCs are written after the value BCs
_apply_BCs_rate_last(st, ref, b) ==
    LET A0 == st[ref]
    IN [store |-> [st EXCEPT ![ref] = apply_value_A(A0)],
        b |-> apply_rate_b(apply_value_b(A0, b))]

\* _apply_BCs on the matrix behind reference ref and on b.  Both keys
\* exist from __init__ on, so both branches are taken.
_apply_BCs(st, ref, b) ==
    LET b1 == apply_rate_b(b)
        A0 == st[ref]
    IN [store |-> [st EXCEPT ![ref] = apply_value_A(A0)],
        b |-> apply_value_b(A0, b1)]

(* ------------------------------------------------------------------ *)
(* Handlers                                                            *)
(* ------------------------------------------------------------------ *)
\* fault variant: an A and a b that exist are kept as they are
update_A_and_b_kept ==
    IF _A = "None"
    THEN LET c == build_A_copy(build_A_store)
         IN [ref |-> c.ref, r |-> _apply_BCs(c.store, c.ref, build_b_zeros)]
    ELSE [ref |-> _A, r |-> [store |-> store, b |-> _b]]

\* the state after _build_A, _build_b, _apply_BCs (lines 217-224)
update_A_and_b_result ==
    LET c == build_A_copy(build_A_store)
    IN [ref |-> c.ref, r |-> _apply_BCs(c.store, c.ref, build_b_zeros)]

\* Transport._update_A_and_b
_update_A_and_b ==
    /\ \E u \in {update_A_and_b_result} :
          /\ store' = u.r.store
          /\ _A' = u.ref
          /\ _b' = u.r.b
    /\ cache' = build_A_cache
    /\ _pure_A' = "laplacian"
    /\ _pure_b' = build_b_zeros
    /\ last' = "_update_A_and_b"
    /\ UNCHANGED <<Np, conns, g, iterative, bc_value, bc_rate, x, soln, nchanges>>
    /\ UNCHANGED run_vars

(* ------------------------------------------------------------------ *)
(* Data health and the solver                                          *)
(* ------------------------------------------------------------------ *)
\* line 247: Ps = ~isnan(bc.rate) + ~isnan(bc.value)
pores_BC == {p \in Pores : ~isnan(bc_rate[p]) \/ ~isnan(bc_value[p])}

\* the pores one throat away from a pore of S
neighbours(S) ==
    {p \in Pores : \E t \in Throats :
        \/ conns[t][1] \in S /\ conns[t][2] = p
        \/ conns[t][2] \in S /\ conns[t][1] = p}

RECURSIVE cluster(_)
\* the pores connected to a pore of S by a path of throats
cluster(S) == LET T == S \cup neighbours(S) IN IF T = S THEN S ELSE cluster(T)

\* topotools.is_fully_connected(network, pores_BC): every connected
\* component of the network holds a pore of pores_BC
is_fully_connected(Ps) == cluster(Ps) = Pores

abs(n) == IF n < 0 THEN 0 - n ELSE n

RECURSIVE gcd(_, _)
gcd(a, b) == IF b = 0 THEN a ELSE gcd(b, a % b)

RECURSIVE gcd_all(_, _)
gcd_all(v, S) ==
    IF S = {} THEN 0
    ELSE LET e == CHOOSE e \in S : TRUE IN gcd(abs(v[e]), gcd_all(v, S \ {e}))

\* the rational vector num/den in lowest terms with den > 0
rational(num, den) ==
    CHOOSE r \in {<<[i \in DOMAIN num |-> num[i] \div s], den \div s>> :
                    s \in {(IF den < 0 THEN -1 ELSE 1) * gcd(abs(den), gcd_all(num, DOMAIN num))}} : TRUE

\* the augmented matrix [A | b]: column Np holds b
augmented(A, b) == [i \in Pores |-> [j \in 0 .. Np |-> IF j = Np THEN b[i] ELSE A[i][j]]]

\* every row divided by the gcd of its entries: the same solutions
reduce_rows(M) ==
    [i \in Pores |->
        LET d == gcd_all(M[i], DOMAIN M[i])
        IN IF d = 0 THEN M[i] ELSE [j \in DOMAIN M[i] |-> M[i][j] \div d]]

\* rows from k on with a non-zero entry in column k
pivot_rows(M, k) == {r \in k .. (Np - 1) : M[r][k] # 0}

\* one step of the fraction-free Gauss-Jordan elimination: row r is
\* swapped into place k and column k is cleared in every other row
\* (q is the previous pivot, the division is exact)
eliminate_step(M, k, r, q) ==
    LET row(i) == IF i = k THEN M[r] ELSE IF i = r THEN M[k] ELSE M[i]
        p == M[r][k]
    IN [i \in Pores |-> [j \in 0 .. Np |->
            IF i = k THEN M[r][j]
            ELSE (p * row(i)[j] - row(i)[k] * M[r][j]) \div q]]

RECURSIVE eliminate(_, _, _)
\* the elimination from column k on: ends with d * I in the first Np
\* columns and d * x in the last, or with <<>> for a singular matrix
eliminate(M, k, q) ==
    IF k = Np THEN M
    ELSE IF pivot_rows(M, k) = {} THEN <<>>
    ELSE LET r == CHOOSE r \in pivot_rows(M, k) : \A s \in pivot_rows(M, k) : r <= s
         IN CHOOSE E \in {eliminate(N, k + 1, N[k][k]) : N \in {eliminate_step(M, k, r, q)}} : TRUE

\* solver.solve(A, b, x0) -> (x, exit_code): an exact solver returns the
\* solution of A x = b with exit code 0; a solver that does not converge
\* returns its last iterate, here the initial guess, with exit code 1
solve(A, b, x0) ==
    {<<x0, 1>>} \cup
    UNION {IF E # <<>>
           THEN {<<rational([i \in Pores |-> E[i][Np]], E[0][0]), 0>>}
           ELSE {} : E \in {eliminate(M, 0, 1) : M \in {reduce_rows(augmented(A, b))}}}

\* fault variant: the weights of the new and of the old field are swapped
relax_swapped(w, x_new, x_old) ==
    rational([i \in Pores |-> (1 - w) * x_new[1][i] * x_old[2] + w * x_old[1][i] * x_new[2]],
             x_new[2] * x_old[2])

\* w * x_new + (1 - w) * x for an integer weight w
relax(w, x_new, x_old) ==
    rational([i \in Pores |-> w * x_new[1][i] * x_old[2] + (1 - w) * x_old[1][i] * x_new[2]],
             x_new[2] * x_old[2])

\* line 191: np.zeros_like(self.b)
zeros_x == <<[i \in Pores |-> 0], 1>>

\* lines 281-284 with finite data: the topology check decides
validate_data_health_ok == is_fully_connected(pores_BC)

\* Transport.run(solver, x0=None): lines 184-201 with _run_special
\* (lines 203-215, w = 1).  _validate_data_health raises on the topology
\* before it reads A or b, so a raising run changes nothing.  In a passing
\* run the A and b getters it reaches (lines 117-137) build, when _A or _b
\* is None, what _update_A_and_b builds again at line 199; the system
\* passed to the solver and the one rebuilt after it (line 211) are the
\* same, since nothing the assembly reads changes in between.
run ==
    \/ /\ ~validate_data_health_ok
       /\ last' = "run raised"
       /\ UNCHANGED <<Np, conns, g, cache, iterative, bc_value, bc_rate, store,
                      _pure_A, _A, _pure_b, _b, x, soln, nchanges>>
       /\ UNCHANGED run_vars
    \/ /\ validate_data_health_ok
       /\ \E u \in {update_A_and_b_result} :
             /\ store' = u.r.store
             /\ _A' = u.ref
             /\ _b' = u.r.b
             /\ \E s \in solve(u.r.store[u.ref], u.r.b, zeros_x) :
                   /\ x' = relax(1, s[1], zeros_x)
                   /\ soln' = <<x', s[2] = 0>>
       /\ cache' = build_A_cache
       /\ _pure_A' = "laplacian"
       /\ _pure_b' = build_b_zeros
       /\ last' = "run"
       /\ UNCHANGED <<Np, conns, g, iterative, bc_value, bc_rate, nchanges>>
       /\ UNCHANGED run_vars

(* ------------------------------------------------------------------ *)
(* rate                                                                *)
(* ------------------------------------------------------------------ *)
\* lines 385-386: np.tile(g, (2, 1)).T when g.size is Nt; an Nt by 2 array
\* is taken as it is
tile_g ==
    IF g2 = None THEN [t \in Throats |-> <<g[t], g[t]>>]
    ELSE [t \in Throats |-> <<g[t], g2[t]>>]

\* line 388: np.flip(g, axis=1)
flip(G) == [t \in Throats |-> <<G[t][2], G[t][1]>>]

\* lines 383-389: Qt = np.diff(g * X12, axis=1), numerators over x[2]
Qt ==
    LET G == flip(tile_g)
    IN [t \in Throats |-> G[t][2] * x[1][conns[t][2]] - G[t][1] * x[1][conns[t][1]]]

\* fault variant of Qp: Qt goes to the first pore and -Qt to the second
Qp_swapped ==
    [p \in Pores |->
        SumOver(Qt, {t \in Throats : conns[t][1] = p})
        + SumOver([t \in Throats |-> 0 - Qt[t]], {t \in Throats : conns[t][2] = p})]

\* lines 396-398: the scatter of -Qt to the first and Qt to the second pore
Qp ==
    [p \in Pores |->
        SumOver([t \in Throats |-> 0 - Qt[t]], {t \in Throats : conns[t][1] = p})
        + SumOver(Qt, {t \in Throats : conns[t][2] = p})]

\* fault variant of rate_throats_single: np.absolute is missing
rate_throats_signed(ts) == [k \in DOMAIN ts |-> Qt[ts[k]]]

\* rate(throats=ts, mode='single'): numerators over x[2]
rate_throats_single(ts) == [k \in DOMAIN ts |-> abs(Qt[ts[k]])]

\* fault variant: the net rate into the pore
rate_pores_entering(ps) == [k \in DOMAIN ps |-> 0 - Qp[ps[k]]]

\* rate(pores=ps, mode='single'): numerators over x[2]
rate_pores_single(ps) == [k \in DOMAIN ps |-> Qp[ps[k]]]

\* fault variant: the absolute value is taken of the sum
rate_throats_group_net(ts) == <<abs(Sum([k \in DOMAIN ts |-> Qt[ts[k]]]))>>

\* rate(..., mode='group'): np.sum of the single values
rate_throats_group(ts) == <<Sum(rate_throats_single(ts))>>
\* fault variant: the magnitudes of the pore rates summed
rate_pores_group_magnitude(ps) == <<Sum([k \in DOMAIN ps |-> abs(Qp[ps[k]])])>>

rate_pores_group(ps) == <<Sum(rate_pores_single(ps))>>

(* ------------------------------------------------------------------ *)
(* The caller's changes between calls                                  *)
(* ------------------------------------------------------------------ *)
\* the record of the last call of run is kept until the caller's next
\* change
forget_call ==
    /\ arg_x0' = None
    /\ raised' = None
    /\ log' = <<>>
    /\ exit_code' = None
    /\ entry' = None
    /\ UNCHANGED <<settings, nonfinite, pc, call_args>>

\* alg['pore.bc.value'][p] = v (set_value_BC, or a direct write)
set_value_BC ==
    /\ nchanges < MaxChanges
    /\ \E p \in Pores, v \in BCValues : bc_value' = [bc_value EXCEPT ![p] = Fin(v)]
    /\ nchanges' = nchanges + 1
    /\ last' = "edit"
    /\ UNCHANGED <<Np, conns, g, cache, iterative, bc_rate, store, _pure_A, _A, _pure_b, _b, x, soln>>
    /\ forget_call

\* alg['pore.bc.rate'][p] = r (set_rate_BC, or a direct write)
set_rate_BC ==
    /\ nchanges < MaxChanges
    /\ \E p \in Pores, r \in BCRates : bc_rate' = [bc_rate EXCEPT ![p] = Fin(r)]
    /\ nchanges' = nchanges + 1
    /\ last' = "edit"
    /\ UNCHANGED <<Np, conns, g, cache, iterative, bc_value, store, _pure_A, _A, _pure_b, _b, x, soln>>
    /\ forget_call

\* clear_value_BCs: every entry back to NaN
clear_value_BCs ==
    /\ nchanges < MaxChanges
    /\ bc_value' = [p \in Pores |-> NaN]
    /\ nchanges' = nchanges + 1
    /\ last' = "edit"
    /\ UNCHANGED <<Np, conns, g, cache, iterative, bc_rate, store, _pure_A, _A, _pure_b, _b, x, soln>>
    /\ forget_call

\* clear_rate_BCs: every entry back to NaN
clear_rate_BCs ==
    /\ nchanges < MaxChanges
    /\ bc_rate' = [p \in Pores |-> NaN]
    /\ nchanges' = nchanges + 1
    /\ last' = "edit"
    /\ UNCHANGED <<Np, conns, g, cache, iterative, bc_value, store, _pure_A, _A, _pure_b, _b, x, soln>>
    /\ forget_call

\* the phase's conductance of one throat changes
set_conductance ==
    /\ nchanges < MaxChanges
    /\ \E t \in Throats, v \in GVals : v # g[t] /\ g' = [g EXCEPT ![t] = v]
    /\ nchanges' = nchanges + 1
    /\ last' = "edit"
    /\ UNCHANGED <<Np, conns, cache, iterative, bc_value, bc_rate, store, _pure_A, _A, _pure_b, _b, x, soln>>
    /\ forget_call

\* alg.settings['cache'] = True / False
set_cache ==
    /\ nchanges < MaxChanges
    /\ cache' = ~cache
    /\ nchanges' = nchanges + 1
    /\ last' = "edit"
    /\ UNCHANGED <<Np, conns, g, iterative, bc_value, bc_rate, store, _pure_A, _A, _pure_b, _b, x, soln>>
    /\ forget_call

\* the conductance enters or leaves iterative_props
set_iterative ==
    /\ nchanges < MaxChanges
    /\ iterative' = ~iterative
    /\ nchanges' = nchanges + 1
    /\ last' = "edit"
    /\ UNCHANGED <<Np, conns, g, cache, bc_value, bc_rate, store, _pure_A, _A, _pure_b, _b, x, soln>>
    /\ forget_call

(* ------------------------------------------------------------------ *)
(* Specification                                                       *)
(* ------------------------------------------------------------------ *)
\* Transport.__init__ (lines 64-73) on a network and a phase, with the
\* quantity and the conductance named in the settings (as the subclasses
\* of Transport do)
Init ==
    /\ \E net \in Networks : Np = net.Np /\ conns = net.conns
    /\ g \in [DOMAIN conns -> GVals]
    /\ cache = TRUE
    /\ iterative = FALSE
    /\ bc_value = [p \in Pores |-> NaN]
    /\ bc_rate = [p \in Pores |-> NaN]
    /\ store = [r \in {"laplacian", "copy"} |-> None]
    /\ _pure_A = "None"
    /\ _A = "None"
    /\ _pure_b = None
    /\ _b = None
    /\ x = None
    /\ soln = None
    /\ last = "__init__"
    /\ nchanges = 0
    /\ settings = [quantity |-> Quantity, conductance |-> Conductance, phase |-> PhaseName]
    /\ nonfinite = [a \in {"g", "laplacian", "copy", "b"} |-> FALSE]
    /\ pc = "idle"
    /\ arg_x0 = None
    /\ raised = None
    /\ log = <<>>
    /\ exit_code = None
    /\ entry = None
    /\ g2 = None
    /\ ret = None
    /\ label_arrays = labels_after_init

Next ==
    \/ _update_A_and_b
    \/ run
    \/ set_value_BC
    \/ set_rate_BC
    \/ clear_value_BCs
    \/ clear_rate_BCs
    \/ set_conductance
    \/ set_cache
    \/ set_iterative

Spec == Init /\ [][Next]_vars

(* ------------------------------------------------------------------ *)
(* Properties                                                          *)
(* ------------------------------------------------------------------ *)
\* the matrices behind the two references
live_A == store[_A]
pure_A == store[_pure_A]

\* the last call assembled A and b from the arrays as they stand
Assembled == last \in {"_update_A_and_b", "run"}

value_pores == {p \in Pores : isfinite(bc_value[p])}
rate_pores == {p \in Pores : isfinite(bc_rate[p])}

\* the throats incident on pore i, and those joining pores i and j
incident(i) == {t \in Throats : conns[t][1] = i \/ conns[t][2] = i}
joining(i, j) == {t \in Throats : conns[t] = <<i, j>> \/ conns[t] = <<j, i>>}

\* the pure matrix holds sign * (sum of the incident conductances) on the
\* diagonal and minus the joining conductance off it (in units of 1/Np)
PureEntries(sign) ==
    \A i, j \in Pores :
        pure_A[i][j] = IF i = j THEN sign * Np * SumOver(g, incident(i))
                       ELSE 0 - Np * SumOver(g, joining(i, j))

\* C1: after _apply_BCs every pore i with a finite bc.value, with or
\* without a finite bc.rate, has row i and column i of A zero off the
\* diagonal, A[i,i] = f and b[i] = bc.value[i] * f, f the mean of the
\* diagonal of the pure A.
C1_ValuePoresConstrained ==
    Assembled =>
        \A i \in value_pores :
            /\ \A j \in Pores \ {i} : live_A[i][j] = 0 /\ live_A[j][i] = 0
            /\ live_A[i][i] * Np = Sum(diagonal(pure_A))
            /\ _b[i] = val(bc_value[i]) * live_A[i][i]

\* a pore with both a value and a rate BC has been constrained
C1_Witness ==
    /\ Assembled
    /\ \E i \in value_pores \cap rate_pores :
          /\ val(bc_value[i]) # 0
          /\ live_A[i][i] # 0
          /\ \E j \in Pores \ {i} : pure_A[i][j] # 0

\* C2: after _apply_BCs every pore j without a finite bc.value has
\* b[j] = (bc.rate[j] if finite, else 0) - sum over the value-BC pores i of
\* pureA[j,i] * bc.value[i].
C2_UnconstrainedRHS ==
    Assembled =>
        \A j \in Pores \ value_pores :
            _b[j] = (IF j \in rate_pores THEN val(bc_rate[j]) * Np ELSE 0)
                    - SumOver([i \in Pores |-> pure_A[j][i] * val(bc_value[i])], value_pores)

\* a rate-BC pore coupled to a pore with a non-zero value BC
C2_Witness ==
    /\ Assembled
    /\ \E j \in rate_pores \ value_pores : \E i \in value_pores :
          pure_A[j][i] # 0 /\ val(bc_value[i]) # 0

\* C3: the live A is symmetric whenever it exists, after every assembly and
\* run in any sequence of changes.
C3_LiveSymmetric ==
    _A # "None" => \A i, j \in Pores : live_A[i][j] = live_A[j][i]

\* a run after two changes, with a value-BC pore whose couplings were removed
C3_Witness ==
    /\ last = "run"
    /\ nchanges >= 2
    /\ \E i \in value_pores : \E j \in Pores \ {i} :
          pure_A[i][j] # 0 /\ live_A[i][j] = 0 /\ live_A[j][i] = 0

\* C4: the pure matrix is symmetric and each of its rows sums to zero
\* (conductances are nonnegative).
C4_PureLaplacian ==
    _pure_A # "None" =>
        /\ \A i, j \in Pores : pure_A[i][j] = pure_A[j][i]
        /\ \A i \in Pores : Sum(pure_A[i]) = 0

\* a pure matrix built from conductances that are not all equal
C4_Witness ==
    /\ _pure_A # "None"
    /\ \E i, j \in Pores : i # j /\ pure_A[i][j] # 0
    /\ \E i, j \in Pores : pure_A[i][i] # pure_A[j][j] /\ pure_A[j][j] # 0

\* C5, as stated: each diagonal entry of the pure matrix built by _build_A
\* is the negative sum of the incident conductances, each off-diagonal
\* entry minus the joining conductance.
C5_Original ==
    [][(Assembled' /\ build_A_rebuild) => PureEntries(-1)']_vars

\* C5, amended: each diagonal entry of the pure matrix built by _build_A
\* is the sum of the incident conductances (positive), each off-diagonal
\* entry minus the joining conductance.
C5_PureEntries ==
    [][(Assembled' /\ build_A_rebuild) => PureEntries(1)']_vars

\* a pure matrix that holds the entries of the current, unequal conductances
C5_Witness ==
    /\ Assembled
    /\ PureEntries(1)
    /\ \E t, u \in Throats : g[t] > g[u] /\ g[u] > 0

\* C6: with every bc.value NaN, _apply_BCs leaves A equal to the pure
\* matrix and b equal to bc.rate where that is finite and zero elsewhere.
C6_RateOnly ==
    (Assembled /\ value_pores = {}) =>
        /\ live_A = pure_A
        /\ \A i \in Pores :
              _b[i] = IF i \in rate_pores THEN val(bc_rate[i]) * Np ELSE 0

\* rate BCs only, on a matrix whose diagonal entries differ
C6_Witness ==
    /\ Assembled
    /\ value_pores = {}
    /\ rate_pores # {}
    /\ \E i, j \in Pores : pure_A[i][i] # pure_A[j][j]

\* exactly one value-BC pore and exactly one rate-BC pore, another one
OneValueOneRate ==
    /\ Cardinality(value_pores) = 1
    /\ Cardinality(rate_pores) = 1
    /\ value_pores \cap rate_pores = {}

\* the rate at the rate-BC pore is the imposed rate (x is num/den, so the
\* imposed rate is scaled by den)
RateIsImposed ==
    \A r \in rate_pores : rate_pores_group(<<r>>)[1] = val(bc_rate[r]) * x[2]

\* the pure matrix the last assembly copied was built from the conductance
\* as it stands now: it was rebuilt by that assembly, or the conductance
\* has the values it had when the matrix was cached
PureIsCurrent == _pure_A # "None" /\ PureEntries(1)

\* C7 as stated: one value-BC pore, one other rate-BC pore, a converged
\* run of an exact solver: rate(pores=[the rate-BC pore], mode='group')
\* is the imposed rate.  It fails when the run copied a pure matrix cached
\* before a change of the conductance: the field solves the old system
\* and rate reads the new conductance.
C7_Original ==
    (last = "run" /\ soln[2] /\ OneValueOneRate) => RateIsImposed

\* C7: in such a run whose pure matrix was built from the current
\* conductance, rate(pores=[the rate-BC pore], mode='group') is the
\* imposed rate.
C7_Conservation ==
    (last = "run" /\ soln[2] /\ OneValueOneRate /\ PureIsCurrent) => RateIsImposed

\* such a run, with a field that is not constant
C7_Witness ==
    /\ last = "run"
    /\ soln[2]
    /\ OneValueOneRate
    /\ PureIsCurrent
    /\ \E p, q \in Pores : x[1][p] # x[1][q]

\* the chain 0-1-2 with conductance 2, x[0] = 10 and x[2] = 0, no rate BC
Chain3 ==
    /\ Np = Chain.Np
    /\ conns = Chain.conns
    /\ g = (0 :> 2 @@ 1 :> 2)
    /\ bc_value = (0 :> Fin(10) @@ 1 :> NaN @@ 2 :> Fin(0))
    /\ rate_pores = {}

Chain3_x == <<(0 :> 10 @@ 1 :> 5 @@ 2 :> 0), 1>>

\* the assembled system has the unique solution (10, 5, 0); after a
\* converged run x is that solution and rate(throats=[0, 1],
\* mode='single') is 10 for each throat
Chain3_Solution ==
    /\ Assembled =>
          /\ matvec(live_A, Chain3_x[1]) = _b
          /\ solve(live_A, _b, zeros_x) = {<<zeros_x, 1>>, <<Chain3_x, 0>>}
    /\ (last = "run" /\ soln[2]) =>
          /\ x = Chain3_x
          /\ rate_throats_single(<<0, 1>>) = <<10, 10>>

\* C8 as stated: on that chain the assembled system has the unique
\* solution (10, 5, 0), and rate(throats=[0, 1], mode='single') on it is
\* 10 for each throat.  It fails when the assembly copied a pure matrix
\* cached while the conductance was not uniform.
C8_Original == Chain3 => Chain3_Solution

\* C8: on that chain, assembled from a pure matrix built from the current
\* conductance, the system has the unique solution (10, 5, 0), and
\* rate(throats=[0, 1], mode='single') on it is 10 for each throat.
C8_Chain == (Chain3 /\ PureIsCurrent) => Chain3_Solution

\* the chain after a converged run
C8_Witness == last = "run" /\ soln[2] /\ Chain3 /\ PureIsCurrent /\ x = Chain3_x

\* C9: no step changes the cached pure matrix unless _build_A rebuilds it,
\* and a rebuilt pure matrix is the BC-free Laplacian whatever the BCs.
C9_PureNeverEdited ==
    [][/\ (_pure_A # "None" /\ ~build_A_rebuild) =>
              store'["laplacian"] = store["laplacian"]
       /\ (Assembled' /\ build_A_rebuild /\ value_pores # {}) =>
              (PureEntries(1)' /\ \A i \in Pores : Sum(pure_A[i])' = 0)]_vars

\* BCs were applied to the live matrix and the cached pure matrix still
\* holds the Laplacian
C9_Witness ==
    /\ Assembled
    /\ cache
    /\ value_pores # {}
    /\ live_A # pure_A
    /\ \A i \in Pores : Sum(pure_A[i]) = 0 /\ pure_A[i][i] # 0

\* C10: an assembly with caching enabled and a pure matrix at hand leaves
\* the pure matrix as it is; an assembly with caching disabled builds it
\* from the conductances as they are then.
C10_Caching ==
    [][/\ (Assembled' /\ build_A_cache /\ _pure_A # "None") =>
              pure_A' = pure_A
       /\ (Assembled' /\ ~build_A_cache) => PureEntries(1)']_vars

\* the conductance changed after the pure matrix was built, the cache is
\* on, and the assembly that followed kept the pure matrix
C10_Witness ==
    /\ Assembled
    /\ cache
    /\ ~PureEntries(1)

\* C11: an assembly made while the conductance is among the iterative
\* properties leaves caching disabled and a pure matrix built from the
\* conductance as it stands then, whatever was cached before.
C11_IterativeRebuilds ==
    [][(Assembled' /\ iterative) => (cache' = FALSE /\ PureEntries(1)')]_vars

\* an assembly with the conductance iterative, after the conductance and
\* the settings changed
C11_Witness ==
    /\ Assembled
    /\ iterative
    /\ ~cache
    /\ nchanges >= 2
    /\ PureIsCurrent

(* ------------------------------------------------------------------ *)
(* run, statement by statement                                         *)
(* ------------------------------------------------------------------ *)
\* raise Exception(msg): the kind of error, which message of that kind,
\* the properties or pores the message names, and the properties the
\* diagnosis found with NaNs (None where there is no diagnosis)
Exception(kind, detail, cites, nans) == <<kind, detail, cites, nans>>

\* the call of run ends with the exception e
Raise(e) == raised' = e /\ pc' = "idle" /\ last' = "run raised"

\* the call of run goes on at line l
Goto(l) == pc' = l /\ UNCHANGED <<raised, last>>

\* lines 234-240: the first of the three settings that is None
validate_settings_error ==
    IF settings.quantity = None THEN Exception("configuration", "quantity", {}, None)
    ELSE IF settings.conductance = None THEN Exception("configuration", "conductance", {}, None)
    ELSE IF settings.phase = None THEN Exception("configuration", "phase", {}, None)
    ELSE None

\* fault variant: the topology is not checked
validate_topology_skipped == None

\* lines 247-252: the message is a fixed text, it names no pore
validate_topology_error ==
    IF is_fully_connected(pores_BC) THEN None
    ELSE Exception("topology", "clustered", {}, None)

\* line 102, g = phase[gvals], reached with the conductance never named:
\* '' is no property of the phase
build_A_raises == build_A_rebuild /\ settings.conductance = Unset

\* the A getter, lines 119-120: _build_A is called when _A is None
get_A_builds == _A = "None"

\* which arrays hold a NaN after _build_A: a rebuilt pure matrix holds one
\* exactly when the conductance does, and the copy is like the pure matrix
build_A_nonfinite ==
    LET pure == IF build_A_rebuild THEN nonfinite["g"] ELSE nonfinite["laplacian"]
    IN [a \in DOMAIN nonfinite |->
            IF a = "laplacian" \/ a = build_A_copy(store).ref THEN pure ELSE nonfinite[a]]

\* which arrays hold a NaN after _apply_BCs on the matrix behind ref and on
\* a b of zeros: a NaN on the diagonal of A makes f NaN, so A keeps a NaN
\* on its diagonal with a value BC as without one; b gets value * f at the
\* value-BC pores and loses (A * x_BC) at the others, a NaN either way
apply_BCs_nonfinite(nf, ref) == [nf EXCEPT !["b"] = nf[ref]]

\* fault variant: the b getter rebuilds on every read
get_b_builds_on_every_read == TRUE

\* the b getter, lines 131-132: _build_b is called when _b is None
get_b_builds == _b = None

\* which arrays hold a NaN after the A getter and after the b getter
get_A_nonfinite == IF get_A_builds THEN build_A_nonfinite ELSE nonfinite
get_b_nonfinite(nf) == IF get_b_builds THEN [nf EXCEPT !["b"] = FALSE] ELSE nf

\* line 283, np.isfinite(self.A.data).all(): the object read is the one
\* the getter returns
A_isfinite == ~get_A_nonfinite[IF get_A_builds THEN build_A_copy(store).ref ELSE _A]
b_isfinite == ~get_b_nonfinite(get_A_nonfinite)["b"]

\* a property the conductance model depends on
Upstream == <<"throat", "size">>

\* line 297: ".".join(k.split(".")[:2])
base_prop(k) == SubSeq(k, 1, IF Len(k) < 2 THEN Len(k) ELSE 2)

\* line 262: the throats whose conductance is not finite
Ts_nan == IF nonfinite["g"] THEN Throats ELSE {}

\* what the diagnosis reads from outside the algorithm: nans, the
\* properties check_data_health(phase) reports with "Has NaNs" (the
\* conductance is one exactly when its array holds a NaN); nodes, the
\* nodes of the dependency graph (Upstream -> conductance is an edge when
\* both are nodes); with_model, the throats of the objects that hold the
\* conductance
HealthInputs ==
    {h \in [nans : SUBSET {Upstream, settings.conductance},
            nodes : SUBSET {Upstream, settings.conductance},
            with_model : {{}, Throats}] :
        (settings.conductance \in h.nans) <=> nonfinite["g"]}

\* lines 294-300: d.keys() and unaccounted_nans
accounted(h) == {base_prop(k) : k \in h.nans} \cap h.nodes
unaccounted_nans(h) == {base_prop(k) : k \in h.nans} \ h.nodes

\* line 302 and nx.ancestors(dg_nans, n)
ancestors(h, n) ==
    IF n = settings.conductance /\ Upstream \in accounted(h) THEN {Upstream} ELSE {}

\* line 304
root_props(h) == {n \in accounted(h) : ancestors(h, n) = {}}

\* lines 254-271: raises when a throat with a NaN has no conductance model
conductance_model_missing(h) == ~(Ts_nan \subseteq h.with_model)

\* lines 286-331: every path ends in a raise
diagnosis(h) ==
    IF root_props(h) # {}
    THEN Exception("numerical", "root cause", root_props(h), h.nans)
    ELSE IF conductance_model_missing(h)
    THEN Exception("numerical", "no conductance model", {settings.conductance}, h.nans)
    ELSE IF unaccounted_nans(h) # {}
    THEN Exception("numerical", "unaccounted", unaccounted_nans(h), h.nans)
    ELSE Exception("numerical", "generic", {}, h.nans)

\* the arguments x0 of run: None, a finite vector, NaNs, infs (num/den
\* with den = 0 is not finite: 0/0 and 1/0)
X0s == {None,
        <<[i \in Pores |-> 1], 1>>,
        <<[i \in Pores |-> 0], 0>>,
        <<[i \in Pores |-> 1], 0>>}

\* fault variant: np.isnan in place of np.isfinite, an inf passes
isfinite_all_but_nan(v) == v[2] # 0 \/ \E i \in DOMAIN v[1] : v[1][i] # 0

\* np.isfinite(v).all()
isfinite_all(v) == v[2] # 0

\* what no statement of run changes
caller_vars == <<Np, conns, g, iterative, bc_value, bc_rate, nchanges, settings, call_args>>

\* run(solver, x0), lines 184-188: the call and _validate_settings
run_validate_settings ==
    /\ pc = "idle"
    /\ log' = <<"_validate_settings">>
    /\ exit_code' = None
    /\ arg_x0' = None
    /\ entry' = <<x, soln>>
    /\ IF validate_settings_error # None
       THEN Raise(validate_settings_error)
       ELSE raised' = None /\ pc' = "189" /\ UNCHANGED last
    /\ UNCHANGED <<caller_vars, cache, store, _pure_A, _A, _pure_b, _b, nonfinite, x, soln>>

\* _validate_data_health, lines 273-331, called at line 189 and at line
\* 205: the topology, then A through its getter, then b through its
\* getter when A is finite, then the diagnosis
run_validate_data_health ==
    /\ pc \in {"189", "205"}
    /\ UNCHANGED <<caller_vars, x, soln, arg_x0, exit_code, entry>>
    /\ IF validate_topology_error # None
       THEN /\ Raise(validate_topology_error)
            /\ log' = log \o <<"_validate_data_health", "_validate_topology_health">>
            /\ UNCHANGED <<cache, store, _pure_A, _A, _pure_b, _b, nonfinite>>
       ELSE IF get_A_builds /\ build_A_raises
       THEN /\ Raise(Exception("key", "conductance", {settings.conductance}, None))
            /\ log' = log \o <<"_validate_data_health", "_validate_topology_health",
                               "get A", "_build_A">>
            /\ cache' = build_A_cache
            /\ _pure_A' = "None"
            /\ UNCHANGED <<store, _A, _pure_b, _b, nonfinite>>
       ELSE /\ IF get_A_builds
               THEN /\ \E c \in {build_A_copy(build_A_store)} :
                          store' = c.store /\ _A' = c.ref
                    /\ _pure_A' = "laplacian"
                    /\ cache' = build_A_cache
               ELSE UNCHANGED <<store, _A, _pure_A, cache>>
            /\ IF ~A_isfinite
               THEN /\ \E h \in HealthInputs : Raise(diagnosis(h))
                    /\ log' = log \o <<"_validate_data_health", "_validate_topology_health",
                                       "get A">>
                    /\ nonfinite' = get_A_nonfinite
                    /\ UNCHANGED <<_pure_b, _b>>
               ELSE /\ log' = log \o <<"_validate_data_health", "_validate_topology_health",
                                       "get A", "get b">>
                    /\ nonfinite' = get_b_nonfinite(get_A_nonfinite)
                    /\ IF get_b_builds
                       THEN _pure_b' = build_b_zeros /\ _b' = build_b_zeros
                       ELSE UNCHANGED <<_pure_b, _b>>
                    /\ IF ~b_isfinite
                       THEN \E h \in HealthInputs : Raise(diagnosis(h))
                       ELSE Goto(IF pc = "189" THEN "191" ELSE "207")

\* lines 191-197: x0 is written to the algorithm, then validated, then the
\* solution container is made.  The x setter is self[quantity] = value; ''
\* is no name a property can be stored under
run_write_x0 ==
    /\ pc = "191"
    /\ UNCHANGED <<caller_vars, cache, store, _pure_A, _A, _pure_b, _b, nonfinite, exit_code, entry>>
    /\ \E a \in X0s, v \in X0s :
          /\ v = IF a = None THEN zeros_x ELSE a
          /\ IF settings.quantity = Unset
             THEN /\ Raise(Exception("key", "quantity", {settings.quantity}, None))
                  /\ log' = log \o <<"get b">>
                  /\ UNCHANGED <<x, soln, arg_x0>>
             ELSE /\ x' = v
                  /\ arg_x0' = a
                  /\ log' = log \o <<"get b", "_validate_x0">>
                  /\ IF ~isfinite_all(v)
                     THEN Raise(Exception("x0", "x0 contains inf/nan values", {}, None))
                          /\ UNCHANGED soln
                     ELSE Goto("199") /\ soln' = <<v, FALSE>>

\* fault variant: _run_special calls the solver without line 205
after_update_unvalidated == IF pc = "199" THEN "207" ELSE "213"

\* the statement after _update_A_and_b: line 199 is followed by
\* _run_special, which starts with the validation of line 205; line 211 by
\* lines 213-214
after_update == IF pc = "199" THEN "205" ELSE "213"

\* _update_A_and_b, lines 217-224, called at line 199 and at line 211
run_update_A_and_b ==
    /\ pc \in {"199", "211"}
    /\ UNCHANGED <<caller_vars, x, soln, arg_x0, exit_code, entry>>
    /\ log' = Append(log, "_update_A_and_b")
    /\ cache' = build_A_cache
    /\ IF build_A_raises
       THEN /\ Raise(Exception("key", "conductance", {settings.conductance}, None))
            /\ _pure_A' = "None"
            /\ UNCHANGED <<store, _A, _pure_b, _b, nonfinite>>
       ELSE /\ \E u \in {update_A_and_b_result} :
                  /\ store' = u.r.store
                  /\ _A' = u.ref
                  /\ _b' = u.r.b
                  /\ nonfinite' = apply_BCs_nonfinite(
                                    [build_A_nonfinite EXCEPT !["b"] = FALSE], u.ref)
            /\ _pure_A' = "laplacian"
            /\ _pure_b' = build_b_zeros
            /\ Goto(after_update)

\* lines 207-208: the solver and the under-relaxation with w = 1.  The x0
\* handed to the solver is the one line 191 stored in x, which nothing has
\* written since
run_solve ==
    /\ pc = "207"
    /\ UNCHANGED <<caller_vars, cache, store, _pure_A, _A, _pure_b, _b, nonfinite, soln, arg_x0, entry>>
    /\ log' = Append(log, "solve")
    /\ \E s \in solve(store[_A], _b, x) :
          /\ exit_code' = <<s[2]>>
          /\ x' = relax(1, s[1], x)
    /\ Goto("211")

\* fault variant: the flag is set whatever the exit code
is_converged_always(code) == TRUE

\* line 214: not bool(exit_code)
is_converged(code) == ~(code # 0)

\* lines 213-214 and 201: the field and the flag go into the container,
\* which is returned
run_return ==
    /\ pc = "213"
    /\ UNCHANGED <<caller_vars, cache, store, _pure_A, _A, _pure_b, _b, nonfinite, x,
                   arg_x0, exit_code, log, raised, entry>>
    /\ soln' = <<x, is_converged(exit_code[1])>>
    /\ pc' = "idle"
    /\ last' = "run"

(* ------------------------------------------------------------------ *)
(* What the caller does between calls of run                           *)
(* ------------------------------------------------------------------ *)
\* the b getter, lines 128-133: _build_b is called when _b is None
get_b ==
    /\ pc = "idle"
    /\ IF get_b_builds
       THEN _pure_b' = build_b_zeros /\ _b' = build_b_zeros
       ELSE UNCHANGED <<_pure_b, _b>>
    /\ nonfinite' = get_b_nonfinite(nonfinite)
    /\ last' = "get b"
    /\ UNCHANGED <<caller_vars, cache, store, _pure_A, _A, x, soln, pc, arg_x0, raised,
                   log, exit_code, entry>>

\* the b setter, lines 135-137, with a vector that holds a NaN
set_b ==
    /\ pc = "idle"
    /\ nchanges < MaxChanges
    /\ _b' = build_b_zeros
    /\ nonfinite' = [nonfinite EXCEPT !["b"] = TRUE]
    /\ nchanges' = nchanges + 1
    /\ last' = "edit"
    /\ UNCHANGED <<Np, conns, g, iterative, bc_value, bc_rate, settings, cache, store,
                   _pure_A, _A, _pure_b, x, soln, pc, call_args>>
    /\ arg_x0' = None /\ raised' = None /\ log' = <<>> /\ exit_code' = None /\ entry' = None

\* alg.settings[k] = None
set_setting ==
    /\ pc = "idle"
    /\ nchanges < MaxChanges
    /\ \E k \in DOMAIN settings :
          settings[k] # None /\ settings' = [settings EXCEPT ![k] = None]
    /\ nchanges' = nchanges + 1
    /\ last' = "edit"
    /\ UNCHANGED <<Np, conns, g, iterative, bc_value, bc_rate, cache, store, _pure_A, _A,
                   _pure_b, _b, nonfinite, x, soln, pc, call_args>>
    /\ arg_x0' = None /\ raised' = None /\ log' = <<>> /\ exit_code' = None /\ entry' = None

\* a NaN is written into the phase's conductance array, or the array is
\* made finite again
set_conductance_nan ==
    /\ pc = "idle"
    /\ nchanges < MaxChanges
    /\ nonfinite' = [nonfinite EXCEPT !["g"] = ~nonfinite["g"]]
    /\ nchanges' = nchanges + 1
    /\ last' = "edit"
    /\ UNCHANGED <<Np, conns, g, iterative, bc_value, bc_rate, settings, cache, store,
                   _pure_A, _A, _pure_b, _b, x, soln, pc, call_args>>
    /\ arg_x0' = None /\ raised' = None /\ log' = <<>> /\ exit_code' = None /\ entry' = None

\* alg['pore.bc.value'][p] = np.inf, a direct write
set_value_BC_inf ==
    /\ pc = "idle"
    /\ nchanges < MaxChanges
    /\ \E p \in Pores : bc_value[p] # Inf /\ bc_value' = [bc_value EXCEPT ![p] = Inf]
    /\ nchanges' = nchanges + 1
    /\ last' = "edit"
    /\ UNCHANGED <<Np, conns, g, cache, iterative, bc_rate, store, _pure_A, _A, _pure_b, _b, x, soln>>
    /\ forget_call

\* Transport.__init__ (lines 64-73) with the settings of TransportSettings
\* (lines 45-49): quantity and conductance are '' unless a subclass or the
\* caller named them
InitRun ==
    /\ \E net \in {Pair, Split} : Np = net.Np /\ conns = net.conns
    /\ g \in [DOMAIN conns -> GVals]
    /\ cache = TRUE
    /\ iterative = FALSE
    /\ bc_value = [p \in Pores |-> NaN]
    /\ bc_rate = [p \in Pores |-> NaN]
    /\ store = [r \in {"laplacian", "copy"} |-> None]
    /\ _pure_A = "None"
    /\ _A = "None"
    /\ _pure_b = None
    /\ _b = None
    /\ x = None
    /\ soln = None
    /\ last = "__init__"
    /\ nchanges = 0
    /\ settings \in [quantity : {Unset, Quantity},
                     conductance : {Unset, Conductance, ConductanceMultiLevel},
                     phase : {PhaseName}]
    /\ nonfinite = [a \in {"g", "laplacian", "copy", "b"} |-> FALSE]
    /\ pc = "idle"
    /\ arg_x0 = None
    /\ raised = None
    /\ log = <<>>
    /\ exit_code = None
    /\ entry = None
    /\ g2 = None
    /\ ret = None
    /\ label_arrays = labels_after_init

NextRun ==
    \/ run_validate_settings
    \/ run_validate_data_health
    \/ run_write_x0
    \/ run_update_A_and_b
    \/ run_solve
    \/ run_return
    \/ get_b
    \/ set_b
    \/ set_setting
    \/ set_conductance_nan
    \/ (pc = "idle" /\ set_value_BC)
    \/ set_value_BC_inf
    \/ (pc = "idle" /\ clear_value_BCs)
    \/ (pc = "idle" /\ set_cache)

SpecRun == InitRun /\ [][NextRun]_vars

(* ------------------------------------------------------------------ *)
(* Calls of rate and of the methods of the mixins                      *)
(* ------------------------------------------------------------------ *)
\* how a call ends
Return(v) == <<"return", v>>
Raised(msg) == <<"raise", msg>>

\* ParserMixin._parse_indices (_mixins.py lines 31-44) on a list of
\* indices or on None: the array of the indices, empty for None
_parse_indices(indices) == IF indices = None THEN <<>> ELSE indices

\* fault variant: a query for pores and throats at once answers for the throats
rate_both_allowed(pores, throats, mode) ==
    IF Len(_parse_indices(throats)) = 0 /\ Len(_parse_indices(pores)) = 0
    THEN Raised("Must specify either pores or throats")
    ELSE IF Len(_parse_indices(throats)) > 0
    THEN Return(IF mode = "group" THEN rate_throats_group(_parse_indices(throats))
                ELSE rate_throats_single(_parse_indices(throats)))
    ELSE Return(IF mode = "group" THEN rate_pores_group(_parse_indices(pores))
                ELSE rate_pores_single(_parse_indices(pores)))

\* Transport.rate(pores, throats, mode), lines 371-403
rate(pores, throats, mode) ==
    IF Len(_parse_indices(throats)) > 0 /\ Len(_parse_indices(pores)) > 0
    THEN Raised("Must specify either pores or throats, not both")
    ELSE IF Len(_parse_indices(throats)) = 0 /\ Len(_parse_indices(pores)) = 0
    THEN Raised("Must specify either pores or throats")
    ELSE IF Len(_parse_indices(throats)) > 0
    THEN Return(IF mode = "group" THEN rate_throats_group(_parse_indices(throats))
                ELSE rate_throats_single(_parse_indices(throats)))
    ELSE Return(IF mode = "group" THEN rate_pores_group(_parse_indices(pores))
                ELSE rate_pores_single(_parse_indices(pores)))

\* the values of the field in a query of rate
XVals == {0, 1, 2}

\* the lists of pores and of throats a caller asks about: none, one, all
all_pores == [k \in 1 .. Np |-> k - 1]
all_throats == [k \in 1 .. Cardinality(Throats) |-> k - 1]
PoreLists == {<<>>, all_pores} \cup {<<p>> : p \in Pores}
ThroatLists == {<<>>, all_throats} \cup {<<t>> : t \in Throats}

\* what no call of these methods changes
object_vars == <<Np, conns, g, cache, iterative, bc_value, bc_rate, store, _pure_A, _A,
                 _pure_b, _b, x, soln, last, nchanges, settings, nonfinite, pc, arg_x0,
                 raised, log, exit_code, entry, g2, label_arrays>>

\* alg.rate(pores=ps, throats=ts, mode=mode)
call_rate ==
    /\ \E ps \in PoreLists, ts \in ThroatLists, mode \in {"group", "single"} :
          ret' = <<"rate", <<ps, ts, mode>>, rate(ps, ts, mode)>>
    /\ UNCHANGED object_vars

\* an algorithm with a field on a network whose conductance has one column
\* or two
InitCalls ==
    /\ \E net \in Networks : Np = net.Np /\ conns = net.conns
    /\ g \in [DOMAIN conns -> GVals]
    /\ g2 \in {None} \cup [DOMAIN conns -> GVals]
    /\ x \in {<<f, 1>> : f \in [Pores -> XVals]}
    /\ cache = TRUE
    /\ iterative = FALSE
    /\ bc_value = [p \in Pores |-> NaN]
    /\ bc_rate = [p \in Pores |-> NaN]
    /\ store = [r \in {"laplacian", "copy"} |-> None]
    /\ _pure_A = "None"
    /\ _A = "None"
    /\ _pure_b = None
    /\ _b = None
    /\ soln = None
    /\ last = "__init__"
    /\ nchanges = 0
    /\ settings = [quantity |-> Quantity, conductance |-> Conductance, phase |-> PhaseName]
    /\ nonfinite = [a \in {"g", "laplacian", "copy", "b"} |-> FALSE]
    /\ pc = "idle"
    /\ arg_x0 = None
    /\ raised = None
    /\ log = <<>>
    /\ exit_code = None
    /\ entry = None
    /\ ret = None
    /\ label_arrays = labels_after_init

NextCalls ==
    \/ call_rate

SpecCalls == InitCalls /\ [][NextCalls]_vars

\* the last call was one of rate, its arguments and its outcome
rate_called == ret # None /\ ret[1] = "rate"
rate_pores_arg == ret[2][1]
rate_throats_arg == ret[2][2]
rate_mode_arg == ret[2][3]
outcome == ret[3]

\* C21: rate raises when pores and throats are both non-empty and when
\* both are empty, and returns a result when exactly one is non-empty.
C21_RateArguments ==
    rate_called =>
        (outcome[1] = "return" <=>
            ((Len(rate_pores_arg) > 0) # (Len(rate_throats_arg) > 0)))

\* a call with pores and throats has raised
C21_Witness ==
    /\ rate_called
    /\ Len(rate_pores_arg) > 0
    /\ Len(rate_throats_arg) > 0
    /\ outcome[1] = "raise"

\* a call of rate for throats only has returned
throats_queried ==
    /\ rate_called
    /\ Len(rate_pores_arg) = 0
    /\ Len(rate_throats_arg) > 0

\* the flow in throat t for a conductance of one value per throat: g
\* times the difference of x at the two end pores (x has denominator 1)
flow(t) == g[t] * (x[1][conns[t][2]] - x[1][conns[t][1]])

\* the magnitude that rate reports for the k-th throat asked about
magnitude(k) ==
    IF g2 = None THEN abs(flow(rate_throats_arg[k]))
    ELSE abs(Qt[rate_throats_arg[k]])

pores_queried ==
    /\ rate_called
    /\ Len(rate_pores_arg) > 0
    /\ Len(rate_throats_arg) = 0

\* the other end of throat t, seen from pore p
neighbour(t, p) == IF conns[t][1] = p THEN conns[t][2] ELSE conns[t][1]

\* what leaves pore p through its throats, for a conductance of one value
\* per throat
efflux(p) ==
    SumOver([t \in Throats |-> g[t] * (x[1][p] - x[1][neighbour(t, p)])], incident(p))

\* C23: for pores and a conductance of one value per throat, mode='single'
\* returns for each pore p asked about the sum over its throats of
\* g * (x[p] - x[neighbour]), positive when material leaves the pore;
\* mode='group' returns the sum over the pores asked about.
C23_PoreRates ==
    (pores_queried /\ g2 = None) =>
        /\ outcome[1] = "return"
        /\ rate_mode_arg = "single" =>
              /\ DOMAIN outcome[2] = DOMAIN rate_pores_arg
              /\ \A k \in DOMAIN rate_pores_arg : outcome[2][k] = efflux(rate_pores_arg[k])
        /\ rate_mode_arg = "group" =>
              outcome[2] = <<Sum([k \in DOMAIN rate_pores_arg |-> efflux(rate_pores_arg[k])])>>

\* the rates of all pores one by one: one pore loses and another gains
C23_Witness ==
    /\ pores_queried
    /\ g2 = None
    /\ rate_mode_arg = "single"
    /\ \E k, l \in DOMAIN rate_pores_arg :
          /\ outcome[2][k] > 0 /\ x[1][rate_pores_arg[k]] = 2
          /\ outcome[2][l] < 0 /\ x[1][rate_pores_arg[l]] = 0

\* a call of rate(pores=all pores, mode='group') has returned
all_pores_grouped ==
    /\ pores_queried
    /\ rate_pores_arg = all_pores
    /\ rate_mode_arg = "group"

\* C29: the net rate of all pores of the network taken as one group is
\* zero, for any x and any conductance, of one value per throat or of two
\* directional columns: every throat adds -Qt to one end and Qt to the other.
C29_NetRateIsZero ==
    all_pores_grouped => outcome = Return(<<0>>)

\* a directional conductance and pores whose own rates are not zero
C29_Witness ==
    /\ all_pores_grouped
    /\ g2 # None
    /\ \E t \in Throats : g2[t] # g[t]
    /\ \E p \in Pores : Qp[p] # 0
    /\ outcome = Return(<<0>>)

(* ------------------------------------------------------------------ *)
(* ParserMixin._parse_mode and ParserMixin._parse_element              *)
(* ------------------------------------------------------------------ *)

\* the longest list handed to the parsers
MaxLen == 4

\* list.count(v)
count(l, v) == Cardinality({k \in DOMAIN l : l[k] = v})

\* list.remove(v): the list without the first v
remove(l, v) ==
    LET k == CHOOSE k \in DOMAIN l : l[k] = v /\ \A j \in 1 .. (k - 1) : l[j] # v
    IN SubSeq(l, 1, k - 1) \o SubSeq(l, k + 1, Len(l))

\* _ = [l.remove(L) for L in l if l.count(L) > 1] from position i on
\* (lines 82 and 167): the comprehension walks the list by position while
\* remove shortens it, so the item that slides into position i is skipped
RECURSIVE remove_in_loop(_, _)
remove_in_loop(l, i) ==
    IF i > Len(l) THEN l
    ELSE IF count(l, l[i]) > 1 THEN remove_in_loop(remove(l, l[i]), i + 1)
    ELSE remove_in_loop(l, i + 1)

\* the list after the comprehension
remove_duplicates(l) == remove_in_loop(l, 1)

\* an argument that is one string, or a list of strings
Str(s) == <<"str", s>>
List(l) == <<"list", l>>

\* if isinstance(arg, str): arg = [arg] (lines 70-71 and 160-161)
as_list(arg) == IF arg[1] = "str" THEN <<arg[2]>> ELSE arg[2]

\* ParserMixin._parse_mode(mode, allowed, single), lines 160-173; allowed
\* is a list of modes or None
_parse_mode(mode, allowed, single) ==
    LET given == as_list(mode)
        kept == remove_duplicates(given)
    IN IF allowed # None /\ \E k \in DOMAIN given : count(allowed, given[k]) = 0
       THEN Raised("'mode' must be one of the following: ")
       ELSE IF single
       THEN IF Len(kept) > 1
            THEN Raised("Multiple modes received when only one mode is allowed by this method")
            ELSE Return(Str(kept[1]))
       ELSE Return(List(kept))

\* a string as the sequence of its characters
pore == <<"p", "o", "r", "e">>
throat == <<"t", "h", "r", "o", "a", "t">>

\* item.split('.', 1)[0]: what stands before the first dot
before_dot(item) ==
    IF \E k \in DOMAIN item : item[k] = "."
    THEN SubSeq(item, 1, (CHOOSE k \in DOMAIN item :
                            item[k] = "." /\ \A j \in 1 .. (k - 1) : item[j] # ".") - 1)
    ELSE item

\* item.lower(), for the capitals that occur in Elements
lower(item) ==
    [k \in DOMAIN item |->
        CASE item[k] = "P" -> "p" [] item[k] = "T" -> "t" [] OTHER -> item[k]]

\* item.rsplit('s', maxsplit=1)[0]: what stands before the last 's'
before_last_s(item) ==
    IF \E k \in DOMAIN item : item[k] = "s"
    THEN SubSeq(item, 1, (CHOOSE k \in DOMAIN item :
                            item[k] = "s" /\ \A j \in (k + 1) .. Len(item) : item[j] # "s") - 1)
    ELSE item

\* lines 73-77 on the list: each item cut at its first dot, in lowercase,
\* cut at its last 's'
elements_of(given) == [k \in DOMAIN given |-> before_last_s(lower(before_dot(given[k])))]

\* ParserMixin._parse_element(element, single), lines 67-88
_parse_element(element, single) ==
    LET given == IF element = None THEN <<pore, throat>> ELSE as_list(element)
        parsed == elements_of(given)
        kept == remove_duplicates(parsed)
    IN IF \E k \in DOMAIN parsed : parsed[k] \notin {pore, throat}
       THEN Raised("All keys must start with either pore or throat")
       ELSE IF single
       THEN IF Len(kept) > 1
            THEN Raised("Both elements recieved when single element allowed")
            ELSE Return(Str(kept[1]))
       ELSE Return(List(kept))

\* the modes and the elements the parsers are called with
Modes == {"or", "and", "all"}
Elements ==
    {pore,
     throat \o <<"s">>,
     <<"P", "o", "r", "e", ".", "s", "i", "z", "e">>,
     <<"n", "o", "d", "e">>}

\* the lists of one to MaxLen items of S
ListsOf(S) == UNION {[1 .. n -> S] : n \in 1 .. MaxLen}

\* a call of _parse_mode
call_parse_mode ==
    /\ ret = None
    /\ \E mode \in {Str(m) : m \in Modes} \cup {List(l) : l \in ListsOf(Modes)},
          allowed \in {None, <<"or", "and">>}, single \in BOOLEAN :
          ret' = <<"_parse_mode", <<mode, allowed, single>>, _parse_mode(mode, allowed, single)>>
    /\ UNCHANGED object_vars

\* a call of _parse_element
call_parse_element ==
    /\ ret = None
    /\ \E element \in {None} \cup {Str(e) : e \in Elements} \cup {List(l) : l \in ListsOf(Elements)},
          single \in BOOLEAN :
          ret' = <<"_parse_element", <<element, single>>, _parse_element(element, single)>>
    /\ UNCHANGED object_vars

\* the caller takes the outcome of the call
take_outcome ==
    /\ ret # None
    /\ ret' = None
    /\ UNCHANGED object_vars

(* ------------------------------------------------------------------ *)
(* LabelMixin.labels                                                   *)
(* ------------------------------------------------------------------ *)

\* the keys of the boolean arrays as list.sort() orders them, and as the
\* object holds them
SortedKeys == <<(<<"pore", "all">>), (<<"pore", "left">>), (<<"pore", "right">>), (<<"throat", "all">>)>>
KeysAsInserted == <<(<<"pore", "all">>), (<<"throat", "all">>), (<<"pore", "left">>), (<<"pore", "right">>)>>

\* the string of a sequence of characters, for the two that pass _parse_element
word(chars) == CASE chars = pore -> "pore" [] chars = throat -> "throat"

\* np.sum(arr, axis=0) at one label: how many of the locations carry it
num_hits(key, locations) ==
    Cardinality({k \in DOMAIN locations : label_arrays[key][locations[k]]})

\* LabelMixin._get_labels(element, locations, mode), lines 279-308
_get_labels(element, locations, mode) ==
    LET locs == _parse_indices(locations)
        elements == _parse_element(Str(element), FALSE)[2][2]
        of_element(key) ==
            key \in DOMAIN label_arrays /\ \E j \in DOMAIN elements : word(elements[j]) = key[1]
        labels == SelectSeq(SortedKeys, of_element)
        hit_any(key) == num_hits(key, locs) > 0
        hit_all(key) == num_hits(key, locs) = Len(locs)
        hit_one(key) == num_hits(key, locs) = 1
        hit_none(key) == num_hits(key, locs) = 0
        hit_all_but_one(key) == num_hits(key, locs) = Len(locs) - 1
        hit_more(key) == num_hits(key, locs) > 1
    IN CASE mode \in {"or", "union", "any"} -> Return(SelectSeq(labels, hit_any))
         [] mode \in {"and", "intersection"} -> Return(SelectSeq(labels, hit_all))
         [] mode \in {"xor", "exclusive_or"} -> Return(SelectSeq(labels, hit_one))
         [] mode \in {"nor", "not", "none"} -> Return(SelectSeq(labels, hit_none))
         [] mode \in {"nand"} -> Return(SelectSeq(labels, hit_all_but_one))
         [] mode \in {"xnor", "nxor"} -> Return(SelectSeq(labels, hit_more))
         [] OTHER -> Raised("Unrecognized mode:")

\* LabelMixin.labels(pores, throats, element, mode), lines 373-391; element
\* is None or one string
labels(pores, throats, element, mode) ==
    LET elements == IF element = None THEN <<pore, throat>> ELSE as_list(element)
        listed(key) ==
            key \in DOMAIN label_arrays /\ \E j \in DOMAIN elements : word(elements[j]) = key[1]
    IN IF Len(pores) = 0 /\ Len(throats) = 0
       THEN Return(SelectSeq(KeysAsInserted, listed))
       ELSE IF Len(pores) > 0 /\ Len(throats) > 0
       THEN Raised("Cannot perform label query on pores and throats simultaneously")
       ELSE IF Len(pores) > 0
       THEN _get_labels(pore, pores, mode)
       ELSE _get_labels(throat, throats, mode)

\* the modes labels is called with
LabelModes == {"or", "and", "intersection", "all", "xor", "nor", "nand", "xnor", "some"}

\* a call of labels
call_labels ==
    /\ ret = None
    /\ \E ps \in PoreLists \cup {<<0, 1>>}, ts \in ThroatLists,
          element \in {None, Str(pore)}, mode \in LabelModes :
          ret' = <<"labels", <<ps, ts, element, mode>>, labels(ps, ts, element, mode)>>
    /\ UNCHANGED object_vars

(* ------------------------------------------------------------------ *)
(* The source terms of models/physics/source_terms/_funcs.py           *)
(* ------------------------------------------------------------------ *)

\* the functions of the module, as __all__ lists them
SourceTerms ==
    {"charge_conservation", "standard_kinetics", "linear", "power_law", "exponential",
     "natural_exponential", "logarithm", "natural_logarithm", "general_symbolic",
     "butler_volmer_conc", "butler_volmer_voltage"}

\* the values that A1, A2 and X hold at a pore
TermVals == 0 .. 2

\* linear(target, X, A1, A2), lines 192-196, at one pore
linear(X, A1, A2) == [S1 |-> A1, S2 |-> A2, rate |-> A1 * X + A2]

\* the mapping a source term returns, each key with the local variable
\* the return statement puts under it
values(func) ==
    CASE func = "charge_conservation" -> [S1 |-> "S1", S2 |-> "rhs", rate |-> "rhs"]
      [] func = "general_symbolic" -> [S1 |-> "s1_val", S2 |-> "s2_val", rate |-> "r_val"]
      [] func \in {"natural_exponential", "natural_logarithm"} ->
            ("pore.S1" :> "S1") @@ ("pore.S2" :> "S2") @@ ("pore.rate" :> "r")
      [] OTHER -> [S1 |-> "S1", S2 |-> "S2", rate |-> "r"]

\* a call of a source term; linear is computed, of the others the
\* mapping is returned as the return statement writes it
call_source_term ==
    /\ ret = None
    /\ \/ \E X \in TermVals, A1 \in TermVals, A2 \in TermVals :
             ret' = <<"linear", <<X, A1, A2>>, Return(linear(X, A1, A2))>>
       \/ \E func \in SourceTerms \ {"linear"} :
             ret' = <<func, <<>>, Return(values(func))>>
    /\ UNCHANGED object_vars

(* ------------------------------------------------------------------ *)
(* The calls of the mixins and of the source terms                     *)
(* ------------------------------------------------------------------ *)

\* an object with the labels 'pore.left' and 'pore.right' set on any of
\* its pores, and no call made
InitMixins ==
    /\ \E net \in Networks : Np = net.Np /\ conns = net.conns
    /\ g = [t \in DOMAIN conns |-> 1]
    /\ g2 = None
    /\ x = None
    /\ cache = TRUE
    /\ iterative = FALSE
    /\ bc_value = [p \in Pores |-> NaN]
    /\ bc_rate = [p \in Pores |-> NaN]
    /\ store = [r \in {"laplacian", "copy"} |-> None]
    /\ _pure_A = "None"
    /\ _A = "None"
    /\ _pure_b = None
    /\ _b = None
    /\ soln = None
    /\ last = "__init__"
    /\ nchanges = 0
    /\ settings = [quantity |-> Quantity, conductance |-> Conductance, phase |-> PhaseName]
    /\ nonfinite = [a \in {"g", "laplacian", "copy", "b"} |-> FALSE]
    /\ pc = "idle"
    /\ arg_x0 = None
    /\ raised = None
    /\ log = <<>>
    /\ exit_code = None
    /\ entry = None
    /\ ret = None
    /\ \E left \in [Pores -> BOOLEAN], right \in [Pores -> BOOLEAN] :
          label_arrays = labels_after_init @@ (<<"pore", "left">> :> left)
                                           @@ (<<"pore", "right">> :> right)

NextMixins ==
    \/ call_parse_mode
    \/ call_parse_element
    \/ call_labels
    \/ call_source_term
    \/ take_outcome

SpecMixins == InitMixins /\ [][NextMixins]_vars

\* a call of method has ended
called(method) == ret # None /\ ret[1] = method

\* the items of a list
items(l) == {l[k] : k \in DOMAIN l}

\* list kept holds the items of list given, each of them once
each_once(kept, given) ==
    /\ items(kept) = items(given)
    /\ \A k \in DOMAIN kept : count(kept, kept[k]) = 1

\* a parser given the items of list given, which it accepts, hands back
\* each of them once, or the only one as a string when single is set
deduplicated(given, single) ==
    IF single
    THEN Cardinality(items(given)) = 1 => outcome = Return(Str(given[1]))
    ELSE outcome[1] = "return" /\ each_once(outcome[2][2], given)

\* C27: the duplicate removal of _parse_mode and of _parse_element leaves
\* each distinct item exactly once for every list, whatever the number of
\* repetitions; four copies of a mode are reduced to one, so that
\* single=True does not raise for them.
C27_Original ==
    /\ (called("_parse_mode") /\ ret[2][2] = None) =>
          deduplicated(as_list(ret[2][1]), ret[2][3])
    /\ (called("_parse_element") /\ ret[2][1] # None) =>
          (items(elements_of(as_list(ret[2][1]))) \subseteq {pore, throat} =>
              deduplicated(elements_of(as_list(ret[2][1])), ret[2][2]))

\* the labels that all of the pores ps carry
on_all(ps) ==
    {key \in DOMAIN label_arrays : key[1] = "pore" /\ \A k \in DOMAIN ps : label_arrays[key][ps[k]]}

\* C25: labels called with pores and mode 'all' does not raise and returns
\* exactly the labels present on all the pores given, as it does for 'and'
\* and for 'intersection'.
C25_Original ==
    (called("labels") /\ Len(ret[2][1]) > 0 /\ Len(ret[2][2]) = 0 /\ ret[2][4] = "all") =>
        /\ outcome[1] = "return"
        /\ each_once(outcome[2], SelectSeq(SortedKeys, LAMBDA key : key \in on_all(ret[2][1])))

\* C24: every source term returns a mapping whose keys are exactly 'S1',
\* 'S2' and 'rate'.
C24_Original ==
    (ret # None /\ ret[1] \in SourceTerms) =>
        /\ outcome[1] = "return"
        /\ DOMAIN outcome[2] = {"S1", "S2", "rate"}

(* ------------------------------------------------------------------ *)
(* Properties of run, of the getters and of the validation             *)
(* ------------------------------------------------------------------ *)
\* a step that is a read of b by the caller
read_of_b == pc = "idle" /\ pc' = "idle" /\ last' = "get b"

\* C12, as stated: every read of b returns a newly built all-zero vector
\* of length Np, b is never cached between reads.  It fails on a read
\* after an assembly: the getter returns the b that _apply_BCs filled.
C12_Original ==
    [][read_of_b => _b' = build_b_zeros]_vars

\* C12, amended: a read of b returns the stored b when there is one, and
\* builds the all-zero vector of length Np only when there is none.
C12_GetB ==
    [][read_of_b => _b' = (IF _b = None THEN build_b_zeros ELSE _b)]_vars

\* a read of b has returned the b of the last assembly, with a BC entry
C12_Witness ==
    /\ pc = "idle"
    /\ last = "get b"
    /\ _b # None
    /\ \E i \in Pores : _b[i] # 0

\* a call of run has ended and the caller has changed nothing since
call_ended == pc = "idle" /\ log # <<>>

\* a required setting is missing: set to None, or never assigned ('')
setting_missing == \E k \in DOMAIN settings : settings[k] = None \/ settings[k] = Unset

\* C13, as stated: with a required setting missing when run is called, one
\* never assigned included, run fails with a configuration error before A
\* or b is built or read.  _validate_settings tests for None and the
\* settings start as '', so a call with a setting never assigned goes on to
\* the topology check and to the A getter.
C13_Original ==
    (call_ended /\ setting_missing) =>
        /\ raised # None
        /\ raised[1] = "configuration"
        /\ log = <<"_validate_settings">>

C15_Original ==
    (call_ended /\ raised # None) => entry = <<x, soln>>

\* the pores of the components that hold no pore with a BC
unreachable_pores == Pores \ cluster(pores_BC)

\* a step of _validate_data_health on a network with such a component
validates_unreachable == pc \in {"189", "205"} /\ unreachable_pores # {}

\* the step ends the call with a topology error and has read neither A
\* nor b
fails_on_topology ==
    /\ pc' = "idle"
    /\ raised' # None
    /\ raised'[1] = "topology"
    /\ \A k \in DOMAIN log' : log'[k] \notin {"get A", "get b"}
    /\ UNCHANGED <<store, _pure_A, _A, _pure_b, _b>>

validates_connected == pc \in {"189", "205"} /\ is_fully_connected(pores_BC)

\* after the step A and b exist and hold no NaN and no inf
A_and_b_finite ==
    /\ _A # "None" /\ ~nonfinite[_A]
    /\ _b # None /\ ~nonfinite["b"]

\* the step ends the call with one of the four diagnostics
fails_on_data ==
    /\ pc' = "idle"
    /\ raised' # None
    /\ raised'[1] = "numerical"
    /\ raised'[2] \in {"root cause", "no conductance model", "unaccounted", "generic"}

\* C17, as stated: on a topology that passes, _validate_data_health
\* returns exactly when every stored value of A and every entry of b is
\* finite, and raises one of its four diagnostics otherwise.  With the
\* conductance never assigned, which _validate_settings lets through, the
\* A getter fails in _build_A: neither a return nor one of the four.
C17_Original ==
    [][validates_connected =>
          IF A_and_b_finite' THEN pc' \in {"191", "207"} /\ raised' = None
          ELSE fails_on_data]_vars

\* a step of the validation of line 189 on a topology that passes, with a
\* NaN in the conductance and no A assembled yet
validates_nan_conductance ==
    /\ pc = "189"
    /\ is_fully_connected(pores_BC)
    /\ settings.conductance \notin {None, Unset}
    /\ nonfinite["g"]
    /\ _A = "None" /\ _pure_A = "None"

\* C18, as stated: with a NaN placed in the conductance array (and in no
\* other property) before A is first assembled, the validation of run
\* fails and its diagnostic cites the conductance.  Line 297 keeps the
\* first two parts of a name: for a conductance named with three parts
\* the message cites the shortened name.
C18_Original ==
    [][validates_nan_conductance =>
          /\ fails_on_data
          /\ raised'[4] = {settings.conductance} => settings.conductance \in raised'[3]]_vars

\* a step of run from the solver call on, and what such a step never does
from_solver_on == pc \in {"207", "211", "213"}
no_raise == raised' = None /\ pc' \in {"211", "213", "idle"}

\* a call that reached the solver has ended
returned_from_solver == call_ended /\ exit_code # None

\* C19: whatever exit code the solver returns, run raises nothing after
\* the solver call and returns the container, which holds the field of the
\* algorithm and is_converged = (exit code is 0).
C19_NonConvergence ==
    /\ [][from_solver_on => no_raise]_vars
    /\ [](returned_from_solver => (raised = None /\ soln = <<x, exit_code[1] = 0>>))

\* a call has returned from a solver that did not converge
C19_Witness ==
    /\ call_ended
    /\ exit_code = <<1>>
    /\ raised = None
    /\ soln = <<x, FALSE>>

\* where in the last call of run a method was called
calls_of(name) == {k \in DOMAIN log : log[k] = name}

\* the solver is about to get, or got, an A and a b that the validation
\* passed: a validation came after every rebuild that came before the
\* solver call
solver_gets_validated ==
    /\ pc = "207" =>
          /\ A_and_b_finite
          /\ \E v \in calls_of("_validate_data_health") :
                \A u \in calls_of("_update_A_and_b") : u < v
    /\ \A s \in calls_of("solve") :
          \E v \in calls_of("_validate_data_health") :
              /\ v < s
              /\ \A u \in calls_of("_update_A_and_b") : u < s => u < v

\* C20, as stated: in every run the validation is invoked before the
\* solver call and again after it, and the solver is only invoked on an A
\* and a b that passed.  No validation follows the solver call: line 211
\* rebuilds A and b and lines 213-214 fill the container.
C20_Original ==
    /\ solver_gets_validated
    /\ returned_from_solver =>
          \A s \in calls_of("solve") :
              /\ \E v \in calls_of("_validate_data_health") : v < s
              /\ \E v \in calls_of("_validate_data_health") : v > s

\* C20, amended: in every run that reaches the solver the validation is
\* invoked twice before the solver call, at the start of run and again on
\* the rebuilt A and b, and not after it; the solver is only invoked on
\* an A and a b that passed.
C20_ValidatedBeforeSolve ==
    /\ solver_gets_validated
    /\ \A s \in calls_of("solve") :
          /\ Cardinality({v \in calls_of("_validate_data_health") : v < s}) = 2
          /\ \A v \in calls_of("_validate_data_health") : v < s

\* a call has returned a converged solution after its two validations,
\* the second one on matrices rebuilt without the cache
C20_Witness ==
    /\ returned_from_solver
    /\ exit_code = <<0>>
    /\ ~cache
    /\ Cardinality(calls_of("_validate_data_health")) = 2
    /\ Cardinality(calls_of("_update_A_and_b")) = 2

\* the order of the calls of _run_special in the last call of run: the
\* validation of line 205 (the second of the call), the solver, the rebuild
\* of line 211 (the second of the call)
run_special_in_order ==
    \A s \in calls_of("solve") :
        /\ calls_of("solve") = {s}
        /\ \E v \in calls_of("_validate_data_health") :
              /\ v < s
              /\ \A u \in calls_of("_update_A_and_b") : u < s => u < v
        /\ \A u, v \in calls_of("_update_A_and_b") : (u > s /\ v > s) => u = v
        /\ returned_from_solver => \E u \in calls_of("_update_A_and_b") : u > s

\* the step of lines 207-208 leaves in x what the solver returned
solver_step == pc = "207"
field_is_solvers == \E s \in solve(store[_A], _b, x) : x' = s[1] /\ exit_code' = <<s[2]>>

\* the steps of lines 211-214
after_solver_step == pc \in {"211", "213"}

\* C26: _run_special validates, calls the solver, relaxes, rebuilds A and
\* b and then updates the container, in this order; with w = 1 the stored
\* field and the container hold the x the solver returned.
C26_RunSpecialOrder ==
    /\ [][solver_step => field_is_solvers]_vars
    /\ [][after_solver_step => x' = x]_vars
    /\ [](run_special_in_order /\ (returned_from_solver => soln[1] = x))

\* a call has returned the solver's field, which is not constant
C26_Witness ==
    /\ returned_from_solver
    /\ exit_code = <<0>>
    /\ soln[1] = x
    /\ \E p, q \in Pores : x[1][p] # x[1][q]
    /\ Cardinality(calls_of("_update_A_and_b")) = 2

\* C28, as stated: the pores that the topology check of the validation
\* counts as carrying a BC are those that _apply_BCs constrains, the pores
\* with a finite value or rate; an infinite entry does not count.  Line 247
\* tests with isnan and lines 146 and 151 with isfinite: a pore with an inf
\* counts for the topology and is not constrained.
C28_Original ==
    pc \in {"189", "205"} =>
        /\ pores_BC = value_pores \cup rate_pores
        /\ validate_topology_error = None => cluster(value_pores \cup rate_pores) = Pores

\* A and b hold the BC arrays as they stand: the rows and columns of the
\* value-BC pores are constrained, the rest of A is the pure matrix, b
\* holds value * f, or the rate (zero without one) less the coupling to
\* the value-BC pores
system_has_current_BCs ==
    /\ \A i \in value_pores :
          /\ \A j \in Pores \ {i} : live_A[i][j] = 0 /\ live_A[j][i] = 0
          /\ live_A[i][i] * Np = Sum(diagonal(pure_A))
          /\ _b[i] = val(bc_value[i]) * live_A[i][i]
    /\ \A j \in Pores \ value_pores :
          /\ \A k \in Pores \ value_pores : live_A[j][k] = pure_A[j][k]
          /\ _b[j] = (IF j \in rate_pores THEN val(bc_rate[j]) * Np ELSE 0)
                     - SumOver([i \in Pores |-> pure_A[j][i] * val(bc_value[i])], value_pores)

\* the field x = num/den solves A x = b
field_solves_system ==
    \A i \in Pores : matvec(live_A, x[1])[i] = _b[i] * x[2]

\* C30: in any sequence of BC changes and runs, with the cache of the pure
\* A on or off, the A and b that a run hands to the solver are built from
\* the BC arrays as they stand at that run.
C30_CurrentBCs ==
    last = "run" =>
        /\ system_has_current_BCs
        /\ soln[2] => field_solves_system

\* a converged run with the cache on, after three changes that left a
\* value BC and a rate BC on different pores
C30_Witness ==
    /\ last = "run"
    /\ soln[2]
    /\ cache
    /\ nchanges >= 3
    /\ value_pores # {}
    /\ rate_pores \ value_pores # {}
    /\ \E p, q \in Pores : x[1][p] # x[1][q]

====
